---- MODULE Spec2Model ----
(***************************************************************************)
(* Model of CalculateWorkTimePy: the Start/Stop session aggregation pass   *)
(* (calculate_work_time), and the command-line and Tk shells around it.    *)
(*                                                                         *)
(* A log row is the list of fields csv.reader yields.  Fields 1, 2 and 4   *)
(* are strings; field 3 is the timestamp text, written                     *)
(* [ok |-> matches DATE_FORMAT, secs |-> the instant it denotes, in s].    *)
(* Diagnostics are the f-strings of the source, kept as records of the     *)
(* values interpolated into them: [kind, login, timestamp, session_id].    *)
(***************************************************************************)
EXTENDS Integers, Sequences, FiniteSets, TLC

\* ------------------------------------------------------------------ bounds
MaxRows == 3
MaxTime == 1
MaxPairRows == 4
MaxFileRows == 2
MaxRuns == 2
MaxSessionRows == 4

Logins == {"alice", "bob"}
SessionIds == {"s1", "s2"}
Times == 0..MaxTime

None == "<None>"
Targets == {None, "alice"}

\* ------------------------------------------------------------- input rows
DateText(t) == [ok |-> TRUE, secs |-> t]
Row(login, action, t, sid) == <<login, action, DateText(t), sid>>

EventRows ==
    {Row(l, a, t, s) : l \in Logins, a \in {"Start", "Stop"}, t \in Times, s \in SessionIds}

\* Rows that yield no Start/Stop event: too few fields, a timestamp that does
\* not match DATE_FORMAT, an action that is neither Start nor Stop.
OtherRows ==
    { <<"alice", "Start", DateText(0)>>,
      <<"alice", "Start", [ok |-> FALSE, secs |-> 0], "s1">>,
      Row("alice", "Login", 0, "s1") }

LogRows == EventRows \cup OtherRows

\* ------------------------------------------------------------ parse_log_line
strptime(text) == IF text.ok THEN [ok |-> TRUE, value |-> text.secs]
                             ELSE [ok |-> FALSE, value |-> 0]

\* Mutant: a timestamp that does not match DATE_FORMAT is read as instant 0.
parse_log_lineLenient(parts) ==
    IF Len(parts) < 4 THEN [ok |-> FALSE]
    ELSE [ok |-> TRUE, login |-> parts[1], action |-> parts[2],
          timestamp |-> strptime(parts[3]).value, session_id |-> parts[4]]

parse_log_line(parts) ==
    IF Len(parts) < 4 THEN [ok |-> FALSE]
    ELSE IF ~strptime(parts[3]).ok THEN [ok |-> FALSE]
    ELSE [ok |-> TRUE, login |-> parts[1], action |-> parts[2],
          timestamp |-> strptime(parts[3]).value, session_id |-> parts[4]]

\* ------------------------------------------- the dict start_times, in order
\* A Python dict keeps insertion order: assigning to a present key keeps its
\* place, a key deleted and set again goes to the end.
HasKey(d, k) == \E i \in 1..Len(d) : d[i].session_id = k

IndexOf(d, k) == CHOOSE i \in 1..Len(d) : d[i].session_id = k

GetItem(d, k) == d[IndexOf(d, k)]

\* Mutant: setdefault, the first Start of an open id is kept.
SetItemKeepFirst(d, k, login, timestamp) ==
    IF HasKey(d, k) THEN d
    ELSE Append(d, [session_id |-> k, login |-> login, timestamp |-> timestamp])

SetItem(d, k, login, timestamp) ==
    LET e == [session_id |-> k, login |-> login, timestamp |-> timestamp]
    IN  IF HasKey(d, k) THEN [d EXCEPT ![IndexOf(d, k)] = e] ELSE Append(d, e)

DelItem(d, k) == SelectSeq(d, LAMBDA e : e.session_id # k)

\* ------------------------------------------------- the defaultdict total_time
\* Mutant: = in place of +=, the last duration replaces the total.
AddTotalAssign(t, login, duration) ==
    [l \in DOMAIN t \cup {login} |-> IF l = login THEN duration ELSE t[l]]

AddTotal(t, login, duration) ==
    [l \in DOMAIN t \cup {login} |->
        IF l = login THEN (IF login \in DOMAIN t THEN t[login] ELSE 0) + duration
        ELSE t[l]]

Truthy(s) == s # None /\ s # ""

\* --------------------------------------------------------------- diagnostics
Diag(kind, login, timestamp, session_id) ==
    [kind |-> kind, login |-> login, timestamp |-> timestamp, session_id |-> session_id]

\* ------------------------------------------------- calculate_work_time: state
PassInit == [start_times |-> <<>>, total_time |-> <<>>, missing_start_logs |-> <<>>]

OnStart(st, e) ==
    [st EXCEPT !.start_times = SetItem(st.start_times, e.session_id, e.login, e.timestamp)]

\* Mutant: a negative duration is clamped to zero.
OnStopMatchClamped(st, e) ==
    LET s == GetItem(st.start_times, e.session_id)
        d == e.timestamp - s.timestamp
    IN  [st EXCEPT !.total_time = AddTotal(st.total_time, e.login, IF d < 0 THEN 0 ELSE d),
                   !.start_times = DelItem(st.start_times, e.session_id)]

\* Mutant: the del is lost, a matched session stays in the table.
OnStopMatchKeepsEntry(st, e) ==
    LET s == GetItem(st.start_times, e.session_id)
    IN  [st EXCEPT !.total_time = AddTotal(st.total_time, e.login, e.timestamp - s.timestamp)]

OnStopMatch(st, e) ==
    LET s == GetItem(st.start_times, e.session_id)
    IN  [st EXCEPT !.total_time = AddTotal(st.total_time, e.login, e.timestamp - s.timestamp),
                   !.start_times = DelItem(st.start_times, e.session_id)]

\* Mutant: the mismatching Stop also closes the session.
OnStopMismatchCloses(st, e) ==
    [st EXCEPT !.missing_start_logs =
                   Append(st.missing_start_logs,
                          Diag("mismatch", e.login, e.timestamp, e.session_id)),
               !.start_times = DelItem(st.start_times, e.session_id)]

\* Mutant: the mismatching Stop takes the session over for its own login.
OnStopMismatchTakesOver(st, e) ==
    [st EXCEPT !.missing_start_logs =
                   Append(st.missing_start_logs,
                          Diag("mismatch", e.login, e.timestamp, e.session_id)),
               !.start_times =
                   SetItem(st.start_times, e.session_id, e.login,
                           GetItem(st.start_times, e.session_id).timestamp)]

OnStopMismatch(st, e) ==
    [st EXCEPT !.missing_start_logs =
        Append(st.missing_start_logs, Diag("mismatch", e.login, e.timestamp, e.session_id))]

\* Mutant: the orphan Stop reads total_time[login], which creates the key.
OnStopOrphanTouchesTotal(st, e) ==
    [st EXCEPT !.missing_start_logs =
                   Append(st.missing_start_logs,
                          Diag("orphan", e.login, e.timestamp, e.session_id)),
               !.total_time = AddTotal(st.total_time, e.login, 0)]

OnStopOrphan(st, e) ==
    [st EXCEPT !.missing_start_logs =
        Append(st.missing_start_logs, Diag("orphan", e.login, e.timestamp, e.session_id))]

OnStop(st, e) ==
    IF HasKey(st.start_times, e.session_id)
    THEN IF GetItem(st.start_times, e.session_id).login = e.login
         THEN OnStopMatch(st, e)
         ELSE OnStopMismatch(st, e)
    ELSE OnStopOrphan(st, e)

\* Mutant: == in place of !=, the target's own events are the ones skipped.
FilteredInverted(target, login) == Truthy(target) /\ login = target

\* Mutant: the login filter is gone, every event is admitted.
FilteredNever(target, login) == FALSE

Filtered(target, login) == Truthy(target) /\ login # target

\* Mutant: the login filter guards the Start branch only.
LoopBodyFilterStarts(st, row, target) ==
    IF Len(row) < 4 THEN st
    ELSE LET parsed == parse_log_line(row)
         IN  IF ~parsed.ok THEN st
             ELSE IF parsed.action = "Start"
                  THEN (IF Filtered(target, parsed.login) THEN st ELSE OnStart(st, parsed))
             ELSE IF parsed.action = "Stop" THEN OnStop(st, parsed)
             ELSE st

\* One iteration of the for loop over the reader.
LoopBody(st, row, target) ==
    IF Len(row) < 4 THEN st
    ELSE LET parsed == parse_log_line(row)
         IN  IF ~parsed.ok THEN st
             ELSE IF Filtered(target, parsed.login) THEN st
             ELSE IF parsed.action = "Start" THEN OnStart(st, parsed)
             ELSE IF parsed.action = "Stop" THEN OnStop(st, parsed)
             ELSE st

\* Mutant: the "not" is lost, an unfiltered pass reports no open session.
FinalKeepNoNot(target, login) == Truthy(target) \/ login = target

FinalKeep(target, login) == ~Truthy(target) \/ login = target

RECURSIVE Unterminated(_, _)
Unterminated(d, target) ==
    IF d = <<>> THEN <<>>
    ELSE LET e == Head(d)
         IN  (IF FinalKeep(target, e.login)
              THEN <<Diag("unterminated", e.login, e.timestamp, e.session_id)>>
              ELSE <<>>) \o Unterminated(Tail(d), target)

\* Mutant: the unterminated-Start diagnostics are put in front of the list.
FinalizationPrepends(st, target) ==
    [st EXCEPT !.missing_start_logs =
        Unterminated(st.start_times, target) \o st.missing_start_logs]

\* The loop after the pass; the table itself is left as it is.
Finalization(st, target) ==
    [st EXCEPT !.missing_start_logs =
        st.missing_start_logs \o Unterminated(st.start_times, target)]


\* What calculate_work_time returns, before it has.
NoResult == [total_time |-> <<>>, errors |-> <<>>]

\* ----------------------------------------------------------- the shells: data
NoExc == ""

\* str(e) of what open() can raise, and of what reading a row can raise.
OpenErrors == {"FileNotFoundError", "PermissionError"}
ReadErrors == {"UnicodeDecodeError"}

ShellRows ==
    { Row("alice", "Start", 0, "s1"), Row("alice", "Stop", 1, "s1"),
      Row("bob", "Stop", 1, "s1"),
      <<"alice", "Start", [ok |-> FALSE, secs |-> 0], "s1">> }

RowSeqs == UNION {[1..k -> ShellRows] : k \in 0..MaxFileRows}

\* A file: whether open() raises, the rows the reader yields, and whether the
\* reader then ends or raises.
Files ==
    { [open_error |-> NoExc, rows |-> rs, read_error |-> re] :
          rs \in RowSeqs, re \in ReadErrors \cup {NoExc} }
    \cup { [open_error |-> oe, rows |-> <<>>, read_error |-> NoExc] : oe \in OpenErrors }

RunIds == 1..MaxRuns

\* The arguments of a call of _update_ui_after_calculation.
UpdateArgs(is_none, totals, errors, cancelled) ==
    [total_time_is_none |-> is_none, total_time |-> totals, errors |-> errors,
     cancelled |-> cancelled]

NoArgs == UpdateArgs(TRUE, <<>>, <<>>, FALSE)

\* An invocation that has not begun.
IdleRun ==
    [pc |-> "idle", login |-> None, pos |-> 0, st |-> PassInit, ret |-> NoResult,
     exc |-> NoExc, flag |-> "unread", args |-> NoArgs]

Status(text, cause) == [text |-> text, cause |-> cause]
StatusReady == Status("Ready", "")
StatusRunning == Status("Calculating...", "")
StatusCancelling == Status("Cancelling...", "")
StatusCancelledByUser == Status("Calculation cancelled by the user", "")
StatusCancelled == Status("Calculation cancelled", "")
StatusError(e) == Status("Error: ", e)
StatusFailed == Status("Calculation failed", "")
StatusDone == Status("Calculation finished", "")

\* login_var.get() or None
OrNone(s) == IF s = "" THEN None ELSE s

\* ------------------------------------------------------------------- state
VARIABLES
    target_login,        \* argument of calculate_work_time
    start_times,         \* local dict: session_id -> (login, timestamp)
    total_time,          \* local defaultdict: login -> seconds
    missing_start_logs,  \* local list of diagnostics
    rows,                \* the rows the reader has yielded so far
    pc,                  \* "loop" | "returned"
    result,              \* the returned pair
    shell,               \* "none" | "cli" | "gui": the program around the pass
    file,                \* the log file the shell is pointed at
    login_var,           \* args.login (cli), the text of login_var (gui)
    run,                 \* the invocations of the shell: main, or the worker threads
    stop_calculation,    \* gui: the cancel flag
    status_var,          \* gui: the status bar
    calculate_btn,       \* gui: state of the Calculate button
    cancel_btn,          \* gui: state of the Cancel button
    results_text,        \* gui: the results pane
    errors_text,         \* gui: the warnings pane
    stdout,              \* cli
    stderr,              \* cli
    exit_code,           \* cli: <<>> while main runs, then <<status>>
    asked                \* gui: the invocations a click on Cancel was meant for

passVars == <<target_login, start_times, total_time, missing_start_logs, rows, pc, result>>
guiVars == <<stop_calculation, status_var, calculate_btn, cancel_btn, results_text, errors_text>>
cliVars == <<stdout, stderr, exit_code>>
shellVars == <<shell, file, login_var, run, guiVars, cliVars, asked>>

vars == <<passVars, shellVars>>

Locals == [start_times |-> start_times, total_time |-> total_time,
           missing_start_logs |-> missing_start_logs]

\* The state of the shell variables when the pass is run on its own.
NoShell ==
    /\ shell = "none"
    /\ file = [open_error |-> NoExc, rows |-> <<>>, read_error |-> NoExc]
    /\ login_var = None
    /\ run = [w \in RunIds |-> IdleRun]
    /\ stop_calculation = FALSE
    /\ status_var = StatusReady
    /\ calculate_btn = "normal"
    /\ cancel_btn = "disabled"
    /\ results_text = <<>>
    /\ errors_text = <<>>
    /\ stdout = <<>>
    /\ stderr = <<>>
    /\ exit_code = <<>>
    /\ asked = {}

Init ==
    /\ target_login \in Targets
    /\ start_times = PassInit.start_times
    /\ total_time = PassInit.total_time
    /\ missing_start_logs = PassInit.missing_start_logs
    /\ rows = <<>>
    /\ pc = "loop"
    /\ result = NoResult
    /\ NoShell

\* The reader yields one more row and the loop body runs on it.
Step(row) ==
    /\ pc = "loop"
    /\ LET n == LoopBody(Locals, row, target_login)
       IN  /\ start_times' = n.start_times
           /\ total_time' = n.total_time
           /\ missing_start_logs' = n.missing_start_logs
    /\ rows' = Append(rows, row)
    /\ UNCHANGED <<target_login, pc, result, shellVars>>

ProcessRow ==
    /\ Len(rows) < MaxRows
    /\ \E row \in LogRows : Step(row)

\* The reader is exhausted: the finalization loop runs and the function returns.
Finalize ==
    /\ pc = "loop"
    /\ LET n == Finalization(Locals, target_login)
       IN  /\ missing_start_logs' = n.missing_start_logs
           /\ result' = [total_time |-> n.total_time, errors |-> n.missing_start_logs]
    /\ pc' = "returned"
    /\ UNCHANGED <<target_login, start_times, total_time, rows, shellVars>>

Next == ProcessRow \/ Finalize

Spec == Init /\ [][Next]_vars

\* --------------------------------------------------- the rows read, as events
\* The row has four fields and a timestamp that parses.
IsParsed(row) == Len(row) >= 4 /\ parse_log_line(row).ok

\* The row is a Start or a Stop event.
IsEvent(row) == IsParsed(row) /\ parse_log_line(row).action \in {"Start", "Stop"}

\* The row is an event the state machine sees under this target login.
Admitted(row, target) == IsEvent(row) /\ ~Filtered(target, parse_log_line(row).login)

\* Index of the last event before row i on the session id of row i, or 0.
PrevOnId(rs, i) ==
    LET before == {j \in 1..(i - 1) : rs[j][4] = rs[i][4]}
    IN  IF before = {} THEN 0 ELSE CHOOSE j \in before : \A k \in before : k <= j

\* Row i is a Stop whose predecessor on its id is a Start of the same login.
ClosesPair(rs, i) ==
    /\ rs[i][2] = "Stop"
    /\ IF PrevOnId(rs, i) = 0 THEN FALSE
       ELSE /\ rs[PrevOnId(rs, i)][2] = "Start"
            /\ rs[PrevOnId(rs, i)][1] = rs[i][1]

\* Every Stop closes a pair and every Start opens one: a prefix of an input of
\* matched pairs.
PairsPrefix(rs) ==
    \A i \in 1..Len(rs) :
        /\ rs[i] \in EventRows
        /\ rs[i][2] = "Stop" => ClosesPair(rs, i)
        /\ rs[i][2] = "Start" =>
              IF PrevOnId(rs, i) = 0 THEN TRUE ELSE rs[PrevOnId(rs, i)][2] = "Stop"

\* ... and every Start has its Stop.
MatchedPairsOnly(rs) ==
    /\ PairsPrefix(rs)
    /\ \A i \in 1..Len(rs) :
          rs[i][2] = "Start" => \E j \in (i + 1)..Len(rs) : PrevOnId(rs, j) = i

StopsOf(rs, login) == {i \in 1..Len(rs) : IsEvent(rs[i]) /\ rs[i][2] = "Stop" /\ rs[i][1] = login}

RECURSIVE SumOver(_, _)
SumOver(f, S) ==
    IF S = {} THEN 0
    ELSE LET x == CHOOSE y \in S : TRUE IN f[x] + SumOver(f, S \ {x})

\* Sum of stop - start over the pairs of a login in an input of matched pairs.
PairSum(rs, login) ==
    SumOver([i \in StopsOf(rs, login) |-> rs[i][3].secs - rs[PrevOnId(rs, i)][3].secs],
            StopsOf(rs, login))

\* Index of the last admitted Start on this id among the rows, or 0.
LastStart(rs, sid, target) ==
    LET starts == {j \in 1..Len(rs) : /\ Admitted(rs[j], target)
                                      /\ rs[j][2] = "Start" /\ rs[j][4] = sid}
    IN  IF starts = {} THEN 0 ELSE CHOOSE j \in starts : \A k \in starts : k <= j

\* Some Stop of the login follows a Start of the same login on the same id.
HasOwnPair(rs, login) ==
    \E i \in StopsOf(rs, login) : \E j \in 1..(i - 1) :
        IsEvent(rs[j]) /\ rs[j][2] = "Start" /\ rs[j][4] = rs[i][4] /\ rs[j][1] = login

\* Some Start of a login other than the target is among the rows for this id.
ForeignStartBefore(rs, sid, target) ==
    \E j \in 1..Len(rs) : /\ IsEvent(rs[j]) /\ rs[j][2] = "Start" /\ rs[j][4] = sid
                          /\ rs[j][1] # target

\* A pass whose input holds matched Start/Stop pairs only: the reader yields a
\* row only if the rows so far stay a prefix of such an input.
PairsRow ==
    /\ Len(rows) < MaxPairRows
    /\ \E row \in EventRows : PairsPrefix(Append(rows, row)) /\ Step(row)

NextPairs == PairsRow \/ Finalize

SpecPairs == Init /\ [][NextPairs]_vars

\* ------------------------------------------------ the shells: the pass inside
\* The pass of invocation w runs on the rows of the file, one row at a step;
\* what the user does in the meantime is interleaved with these steps.
ShellInit ==
    /\ target_login = None
    /\ start_times = PassInit.start_times
    /\ total_time = PassInit.total_time
    /\ missing_start_logs = PassInit.missing_start_logs
    /\ rows = <<>>
    /\ pc = "loop"
    /\ result = NoResult
    /\ shell \in {"cli", "gui"}
    /\ file \in Files
    /\ login_var \in (IF shell = "cli" THEN {None, "alice"} ELSE {"", "alice"})
    /\ run = [w \in RunIds |->
                IF shell = "cli" /\ w = 1
                THEN [IdleRun EXCEPT !.pc = "open", !.login = login_var]
                ELSE IdleRun]
    /\ stop_calculation = FALSE
    /\ status_var = StatusReady
    /\ calculate_btn = "normal"
    /\ cancel_btn = "disabled"
    /\ results_text = <<>>
    /\ errors_text = <<>>
    /\ stdout = <<>>
    /\ stderr = <<>>
    /\ exit_code = <<>>
    /\ asked = {}

\* The cli variant of parse_log_line reports a timestamp that does not parse.
ParseWarning(row) == Len(row) >= 4 /\ ~strptime(row[3]).ok

\* open(log_file_path)
RunOpen(w) ==
    /\ run[w].pc = "open"
    /\ run' = [run EXCEPT ![w].pc = IF file.open_error = NoExc THEN "loop" ELSE "except",
                          ![w].exc = file.open_error]
    /\ UNCHANGED <<passVars, asked, shell, file, login_var, guiVars, cliVars>>

\* for row in reader: one row
RunRow(w) ==
    /\ run[w].pc = "loop"
    /\ run[w].pos < Len(file.rows)
    /\ LET row == file.rows[run[w].pos + 1]
       IN  /\ run' = [run EXCEPT ![w].st = LoopBody(run[w].st, row, run[w].login),
                                 ![w].pos = run[w].pos + 1]
           /\ stderr' = IF shell = "cli" /\ ParseWarning(row)
                        THEN Append(stderr, [kind |-> "parse", cause |-> "ValueError"])
                        ELSE stderr
    /\ UNCHANGED <<passVars, asked, shell, file, login_var, guiVars, stdout, exit_code>>

\* for row in reader: the reader raises
RunRaise(w) ==
    /\ run[w].pc = "loop"
    /\ run[w].pos = Len(file.rows)
    /\ file.read_error # NoExc
    /\ run' = [run EXCEPT ![w].pc = "except", ![w].exc = file.read_error]
    /\ UNCHANGED <<passVars, asked, shell, file, login_var, guiVars, cliVars>>

\* for row in reader: the reader is exhausted; finalization; return
RunReturn(w) ==
    /\ run[w].pc = "loop"
    /\ run[w].pos = Len(file.rows)
    /\ file.read_error = NoExc
    /\ LET n == Finalization(run[w].st, run[w].login)
       IN  run' = [run EXCEPT ![w].st = n,
                              ![w].ret = [total_time |-> n.total_time,
                                          errors |-> n.missing_start_logs],
                              ![w].pc = "returned"]
    /\ UNCHANGED <<passVars, asked, shell, file, login_var, guiVars, cliVars>>

\* ------------------------------------------------------------- the cli: main
TotalGet(t, login) == IF login \in DOMAIN t THEN t[login] ELSE 0

\* "args.login in err": the login occurs in the text of the diagnostic, which
\* spells out its login, its timestamp and its session id.
Mentions(err, login) == login = err.login \/ login = err.session_id

\* main, after calculate_work_time has returned: the report on stdout.
CliPrint ==
    /\ shell = "cli"
    /\ run[1].pc = "returned"
    /\ LET t == run[1].ret.total_time
           errors == run[1].ret.errors
       IN  stdout' =
             IF Truthy(login_var)
             THEN << [kind |-> "one", totals |-> [l \in {login_var} |-> TotalGet(t, login_var)],
                      warnings |-> SelectSeq(errors, LAMBDA e : Mentions(e, login_var))] >>
             ELSE << [kind |-> IF t # <<>> THEN "all" ELSE "none", totals |-> t,
                      warnings |-> errors] >>
    /\ exit_code' = <<0>>
    /\ run' = [run EXCEPT ![1].pc = "done"]
    /\ UNCHANGED <<passVars, asked, shell, file, login_var, guiVars, stderr>>

\* main, the except clauses: a message on stderr and sys.exit(1).
CliFail ==
    /\ shell = "cli"
    /\ run[1].pc = "except"
    /\ stderr' = Append(stderr,
                        IF run[1].exc = "FileNotFoundError"
                        THEN [kind |-> "not_found", cause |-> ""]
                        ELSE [kind |-> "failed", cause |-> run[1].exc])
    /\ exit_code' = <<1>>
    /\ run' = [run EXCEPT ![1].pc = "done"]
    /\ UNCHANGED <<passVars, asked, shell, file, login_var, guiVars, stdout>>

\* ------------------------------------------------- the gui: the Tk main thread
\* Tk calls of a worker thread are carried out by the main thread between two
\* handlers, so a handler is one step; the plain Python of a worker (the pass,
\* the read of the flag) interleaves freely with the handlers.
FreeRuns == {w \in RunIds : run[w].pc = "idle"}

\* os.path.exists(self.file_path.get())
PathExists == file.open_error # "FileNotFoundError"

\* Click on Calculate.
start_calculation ==
    /\ shell = "gui"
    /\ calculate_btn = "normal"
    /\ PathExists
    /\ FreeRuns # {}
    /\ LET w == CHOOSE x \in FreeRuns : \A y \in FreeRuns : x <= y
       IN  run' = [run EXCEPT ![w].pc = "open", ![w].login = OrNone(login_var)]
    /\ status_var' = StatusRunning
    /\ calculate_btn' = "disabled"
    /\ cancel_btn' = "normal"
    /\ stop_calculation' = FALSE
    /\ results_text' = <<>>
    /\ errors_text' = <<>>
    /\ UNCHANGED <<passVars, asked, shell, file, login_var, cliVars>>

\* Click on Cancel.
cancel_calculation ==
    /\ shell = "gui"
    /\ cancel_btn = "normal"
    /\ stop_calculation' = TRUE
    /\ status_var' = StatusCancelling
    /\ UNCHANGED <<passVars, asked, shell, file, login_var, run, calculate_btn, cancel_btn,
                   results_text, errors_text, cliVars>>

\* ---------------------------------------------- the gui: run_calculation
\* Mutant: the test of the flag is lost, a cancelled run goes on to publish.
CancelIgnored(flag) == FALSE

\* "if self.stop_calculation"
CancelRequested(flag) == flag

\* What the worker found in the flag, kept for the record.
FlagSeen(flag) == IF flag THEN "set" ELSE "clear"

\* The test of the flag once calculate_work_time has returned.
CheckFlag(w) ==
    /\ shell = "gui"
    /\ run[w].pc = "returned"
    /\ run' = IF CancelRequested(stop_calculation)
              THEN [run EXCEPT ![w].flag = FlagSeen(stop_calculation),
                               ![w].pc = "cancel_status"]
              ELSE [run EXCEPT ![w].flag = FlagSeen(stop_calculation),
                               ![w].pc = "calculate_btn",
                               ![w].args = UpdateArgs(FALSE, run[w].ret.total_time,
                                                      run[w].ret.errors, FALSE)]
    /\ UNCHANGED <<passVars, asked, shell, file, login_var, guiVars, cliVars>>

\* status_var.set(...) of the cancelled branch, then the call of _update_ui...
CancelStatus(w) ==
    /\ run[w].pc = "cancel_status"
    /\ status_var' = StatusCancelledByUser
    /\ run' = [run EXCEPT ![w].pc = "calculate_btn",
                          ![w].args = UpdateArgs(TRUE, <<>>, <<>>, TRUE)]
    /\ UNCHANGED <<passVars, asked, shell, file, login_var, stop_calculation, calculate_btn,
                   cancel_btn, results_text, errors_text, cliVars>>

\* The except clause: the status with str(e), then the call of _update_ui...
ExceptStatus(w) ==
    /\ shell = "gui"
    /\ run[w].pc = "except"
    /\ status_var' = StatusError(run[w].exc)
    /\ run' = [run EXCEPT ![w].pc = "calculate_btn",
                          ![w].args = UpdateArgs(TRUE, <<>>,
                                                 <<[kind |-> "failed", cause |-> run[w].exc]>>,
                                                 FALSE)]
    /\ UNCHANGED <<passVars, asked, shell, file, login_var, stop_calculation, calculate_btn,
                   cancel_btn, results_text, errors_text, cliVars>>

\* ------------------------------------ the gui: _update_ui_after_calculation
\* Mutant: the "total_time is None" return is lost.
AfterButtonsNoNoneTest(args) ==
    IF args.cancelled THEN "set_cancelled" ELSE "results"

\* Where the method goes after the two buttons are reset.
AfterButtons(args) ==
    IF args.cancelled THEN "set_cancelled"
    ELSE IF args.total_time_is_none THEN "set_failed"
    ELSE "results"

UpdateCalculateBtn(w) ==
    /\ run[w].pc = "calculate_btn"
    /\ calculate_btn' = "normal"
    /\ run' = [run EXCEPT ![w].pc = "cancel_btn"]
    /\ UNCHANGED <<passVars, asked, shell, file, login_var, stop_calculation, status_var,
                   cancel_btn, results_text, errors_text, cliVars>>

UpdateCancelBtn(w) ==
    /\ run[w].pc = "cancel_btn"
    /\ cancel_btn' = "disabled"
    /\ run' = [run EXCEPT ![w].pc = AfterButtons(run[w].args)]
    /\ UNCHANGED <<passVars, asked, shell, file, login_var, stop_calculation, status_var,
                   calculate_btn, results_text, errors_text, cliVars>>

UpdateCancelled(w) ==
    /\ run[w].pc = "set_cancelled"
    /\ status_var' = StatusCancelled
    /\ run' = [run EXCEPT ![w].pc = "done"]
    /\ UNCHANGED <<passVars, asked, shell, file, login_var, stop_calculation, calculate_btn,
                   cancel_btn, results_text, errors_text, cliVars>>

UpdateFailed(w) ==
    /\ run[w].pc = "set_failed"
    /\ status_var' = StatusFailed
    /\ run' = [run EXCEPT ![w].pc = "done"]
    /\ UNCHANGED <<passVars, asked, shell, file, login_var, stop_calculation, calculate_btn,
                   cancel_btn, results_text, errors_text, cliVars>>

\* The inserts into the results pane; login_var is read again here.
UpdateResults(w) ==
    /\ run[w].pc = "results"
    /\ LET t == run[w].args.total_time
       IN  results_text' =
             Append(results_text,
                    IF t # <<>>
                    THEN IF login_var # ""
                         THEN [by |-> w, kind |-> "one",
                               totals |-> [l \in {login_var} |-> TotalGet(t, login_var)]]
                         ELSE [by |-> w, kind |-> "all", totals |-> t]
                    ELSE [by |-> w, kind |-> "none", totals |-> t])
    /\ run' = [run EXCEPT ![w].pc = "errors"]
    /\ UNCHANGED <<passVars, asked, shell, file, login_var, stop_calculation, status_var,
                   calculate_btn, cancel_btn, errors_text, cliVars>>

\* The inserts into the warnings pane.
UpdateErrors(w) ==
    /\ run[w].pc = "errors"
    /\ errors_text' = Append(errors_text, [by |-> w, errors |-> run[w].args.errors])
    /\ run' = [run EXCEPT ![w].pc = "set_done"]
    /\ UNCHANGED <<passVars, asked, shell, file, login_var, stop_calculation, status_var,
                   calculate_btn, cancel_btn, results_text, cliVars>>

UpdateDone(w) ==
    /\ run[w].pc = "set_done"
    /\ status_var' = StatusDone
    /\ run' = [run EXCEPT ![w].pc = "done"]
    /\ UNCHANGED <<passVars, asked, shell, file, login_var, stop_calculation, calculate_btn,
                   cancel_btn, results_text, errors_text, cliVars>>

\* A step of an invocation: of main, or of a worker thread.
RunStep(w) ==
    \/ RunOpen(w) \/ RunRow(w) \/ RunRaise(w) \/ RunReturn(w)
    \/ (w = 1 /\ (CliPrint \/ CliFail))
    \/ CheckFlag(w) \/ CancelStatus(w) \/ ExceptStatus(w)
    \/ UpdateCalculateBtn(w) \/ UpdateCancelBtn(w)
    \/ UpdateCancelled(w) \/ UpdateFailed(w)
    \/ UpdateResults(w) \/ UpdateErrors(w) \/ UpdateDone(w)

NextShell ==
    \/ \E w \in RunIds : RunOpen(w)
    \/ \E w \in RunIds : RunRow(w)
    \/ \E w \in RunIds : RunRaise(w)
    \/ \E w \in RunIds : RunReturn(w)
    \/ CliPrint
    \/ CliFail
    \/ start_calculation
    \/ cancel_calculation
    \/ \E w \in RunIds : CheckFlag(w)
    \/ \E w \in RunIds : CancelStatus(w)
    \/ \E w \in RunIds : ExceptStatus(w)
    \/ \E w \in RunIds : UpdateCalculateBtn(w)
    \/ \E w \in RunIds : UpdateCancelBtn(w)
    \/ \E w \in RunIds : UpdateCancelled(w)
    \/ \E w \in RunIds : UpdateFailed(w)
    \/ \E w \in RunIds : UpdateResults(w)
    \/ \E w \in RunIds : UpdateErrors(w)
    \/ \E w \in RunIds : UpdateDone(w)

SpecShell == ShellInit /\ [][NextShell]_vars

\* The threads and the Tk main loop keep running: an invocation that can take
\* a step takes it in the end.  The user need not click.
SpecShellFair == SpecShell /\ \A w \in RunIds : WF_vars(RunStep(w))

\* ------------------------------------- the gui, with the cancel requests kept
\* The invocation is between the enabling of the Cancel button by
\* start_calculation and its disabling by _update_ui_after_calculation.
InWindow(w) ==
    run[w].pc \in {"open", "loop", "returned", "except", "cancel_status",
                   "calculate_btn", "cancel_btn"}

\* Click on Cancel, with a record of the invocations the click was meant for.
CancelRecorded ==
    /\ shell = "gui"
    /\ cancel_btn = "normal"
    /\ stop_calculation' = TRUE
    /\ status_var' = StatusCancelling
    /\ asked' = asked \cup {w \in RunIds : InWindow(w)}
    /\ UNCHANGED <<passVars, shell, file, login_var, run, calculate_btn, cancel_btn,
                   results_text, errors_text, cliVars>>

NextRecorded ==
    \/ \E w \in RunIds : RunStep(w)
    \/ start_calculation
    \/ CancelRecorded

SpecRecorded == ShellInit /\ [][NextRecorded]_vars

\* ------------------------------------------------------ the step just taken
LastRow == rows[Len(rows)]
LastEvent == parse_log_line(LastRow)

\* The loop body has just run on one more row.
Stepped == pc = "loop" /\ pc' = "loop" /\ Len(rows') = Len(rows) + 1

\* ... and that row was an event with this action that passed the login filter.
SteppedOn(action) ==
    /\ Stepped
    /\ IsEvent(LastRow')
    /\ LastEvent'.action = action
    /\ ~Filtered(target_login, LastEvent'.login)

OldTotal(login) == IF login \in DOMAIN total_time THEN total_time[login] ELSE 0

KindCount(log, kind, sid) ==
    Cardinality({i \in 1..Len(log) : log[i].kind = kind /\ log[i].session_id = sid})

\* ---------------------------------------------------------------------- C1
\* C1: when the input holds only matched Start/Stop pairs, the function returns,
\* for each login whose events the pass admits (every login when no target is
\* given), a total equal to the sum of stop - start over that login's pairs,
\* no total for a login without a pair, and an empty diagnostics list.
C1_MatchedPairsSum ==
    (pc = "returned" /\ MatchedPairsOnly(rows)) =>
        /\ result.errors = <<>>
        /\ \A l \in Logins :
              IF ~Filtered(target_login, l) /\ StopsOf(rows, l) # {}
              THEN l \in DOMAIN result.total_time /\ result.total_time[l] = PairSum(rows, l)
              ELSE l \notin DOMAIN result.total_time

\* Two pairs of one login, on durations that differ, have been summed.
C1_Witness ==
    /\ pc = "returned"
    /\ MatchedPairsOnly(rows)
    /\ \E l \in Logins : Cardinality(StopsOf(rows, l)) = 2
                         /\ l \in DOMAIN result.total_time
                         /\ result.total_time[l] = 1

\* ---------------------------------------------------------------------- C2
\* C2: a Stop on an open session id whose stored login differs from the Stop's
\* login appends exactly one mismatch diagnostic, leaves the table (the entry,
\* its login and its start timestamp) as it was and changes no total.
C2_MismatchStop ==
    [][ ( /\ SteppedOn("Stop")
          /\ HasKey(start_times, LastEvent'.session_id)
          /\ GetItem(start_times, LastEvent'.session_id).login # LastEvent'.login )
        => ( /\ missing_start_logs' =
                  Append(missing_start_logs,
                         Diag("mismatch", LastEvent'.login, LastEvent'.timestamp,
                              LastEvent'.session_id))
             /\ start_times' = start_times
             /\ total_time' = total_time ) ]_vars

C2_Witness ==
    /\ pc = "loop"
    /\ Len(rows) >= 2
    /\ IsEvent(LastRow) /\ LastEvent.action = "Stop"
    /\ missing_start_logs # <<>>
    /\ missing_start_logs[Len(missing_start_logs)] =
          Diag("mismatch", LastEvent.login, LastEvent.timestamp, LastEvent.session_id)
    /\ HasKey(start_times, LastEvent.session_id)
    /\ GetItem(start_times, LastEvent.session_id).login # LastEvent.login

\* ---------------------------------------------------------------------- C3
\* C3: a Stop on a session id absent from the table appends exactly one
\* Stop-without-Start diagnostic and changes neither a total nor the table; a
\* login none of whose Stops follows a Start of its own on the same id (so a
\* login that only sent orphan Stops) is no key of the totals, returned or not.
C3_OrphanStop ==
    /\ [][ (SteppedOn("Stop") /\ ~HasKey(start_times, LastEvent'.session_id))
           => ( /\ missing_start_logs' =
                     Append(missing_start_logs,
                            Diag("orphan", LastEvent'.login, LastEvent'.timestamp,
                                 LastEvent'.session_id))
                /\ start_times' = start_times
                /\ total_time' = total_time ) ]_vars
    /\ [](\A l \in DOMAIN total_time : HasOwnPair(rows, l))
    /\ [](pc = "returned" => DOMAIN result.total_time = DOMAIN total_time)

\* bob only ever sent orphan Stops and the function has returned.
C3_Witness ==
    /\ pc = "returned"
    /\ Len(rows) >= 2
    /\ \A i \in 1..Len(rows) : IsEvent(rows[i]) /\ parse_log_line(rows[i]).login = "bob"
                               /\ parse_log_line(rows[i]).action = "Stop"
    /\ target_login = None
    /\ Len(result.errors) = Len(rows)
    /\ \A i \in 1..Len(rows) : result.errors[i].kind = "orphan"
    /\ "bob" \notin DOMAIN result.total_time

\* ---------------------------------------------------------------------- C4
\* C4: a Start sets the entry of its session id to (its login, its timestamp)
\* whatever was there, with no diagnostic and no change to another entry or to
\* a total; a Stop that matches takes its duration from the last Start of that
\* id alone.
C4_LastStartWins ==
    [][ /\ SteppedOn("Start") =>
            ( /\ HasKey(start_times', LastEvent'.session_id)
              /\ GetItem(start_times', LastEvent'.session_id) =
                    [session_id |-> LastEvent'.session_id, login |-> LastEvent'.login,
                     timestamp |-> LastEvent'.timestamp]
              /\ \A k \in SessionIds \ {LastEvent'.session_id} :
                    /\ HasKey(start_times', k) <=> HasKey(start_times, k)
                    /\ HasKey(start_times, k) => GetItem(start_times', k) = GetItem(start_times, k)
              /\ missing_start_logs' = missing_start_logs
              /\ total_time' = total_time )
        /\ ( /\ SteppedOn("Stop")
             /\ HasKey(start_times, LastEvent'.session_id)
             /\ GetItem(start_times, LastEvent'.session_id).login = LastEvent'.login )
           => ( /\ LastStart(rows, LastEvent'.session_id, target_login) # 0
                /\ LastEvent'.login \in DOMAIN total_time'
                /\ total_time'[LastEvent'.login] - OldTotal(LastEvent'.login) =
                      LastEvent'.timestamp
                      - parse_log_line(rows[LastStart(rows, LastEvent'.session_id,
                                                      target_login)]).timestamp ) ]_vars

\* Start at 0, Start at 1 on the same id, Stop at 1: the total is 0, not 1.
C4_Witness ==
    /\ rows = << Row("alice", "Start", 0, "s1"), Row("alice", "Start", 1, "s1"),
                 Row("alice", "Stop", 1, "s1") >>
    /\ total_time = [l \in {"alice"} |-> 0]
    /\ missing_start_logs = <<>>
    /\ start_times = <<>>

C6_NonNegativeMonotone ==
    [][ /\ \A l \in DOMAIN total_time' : total_time'[l] >= 0
        /\ \A l \in DOMAIN total_time :
              l \in DOMAIN total_time' /\ total_time'[l] >= total_time[l] ]_vars

\* ---------------------------------------------------------------------- C7
\* C7: with a target login, an event of another login changes neither the
\* table, the totals nor the diagnostics; the table only ever holds entries of
\* the target, no mismatch diagnostic exists, and a Stop of the target on an id
\* the target has not open is an orphan Stop even after another login's Start
\* on that id.
C7_FilterSkips ==
    /\ [][ ( /\ Stepped /\ Truthy(target_login)
             /\ IsParsed(LastRow') /\ LastEvent'.login # target_login )
           => UNCHANGED <<start_times, total_time, missing_start_logs>> ]_vars
    /\ [](Truthy(target_login) =>
            /\ \A i \in 1..Len(start_times) : start_times[i].login = target_login
            /\ \A i \in 1..Len(missing_start_logs) : missing_start_logs[i].kind # "mismatch")
    /\ [][ ( /\ SteppedOn("Stop") /\ Truthy(target_login)
             /\ ForeignStartBefore(rows, LastEvent'.session_id, target_login)
             /\ LastStart(rows, LastEvent'.session_id, target_login) = 0 )
           => missing_start_logs' =
                 Append(missing_start_logs,
                        Diag("orphan", LastEvent'.login, LastEvent'.timestamp,
                             LastEvent'.session_id)) ]_vars

\* bob's Start on s1 was skipped and alice's Stop on s1 came out as an orphan.
C7_Witness ==
    /\ target_login = "alice"
    /\ rows = << Row("bob", "Start", 0, "s1"), Row("alice", "Stop", 1, "s1") >>
    /\ start_times = <<>>
    /\ missing_start_logs = << Diag("orphan", "alice", 1, "s1") >>

\* ---------------------------------------------------------------------- C8
\* C8 as stated: with a target login, a Stop of another login on a session the
\* target has open appends a mismatch diagnostic.
C8_AsStated ==
    [][ ( /\ Stepped /\ Truthy(target_login)
          /\ IsEvent(LastRow') /\ LastEvent'.action = "Stop"
          /\ LastEvent'.login # target_login
          /\ HasKey(start_times, LastEvent'.session_id)
          /\ GetItem(start_times, LastEvent'.session_id).login = target_login )
        => missing_start_logs' =
              Append(missing_start_logs,
                     Diag("mismatch", LastEvent'.login, LastEvent'.timestamp,
                          LastEvent'.session_id)) ]_vars

\* C8, amended: with a target login, a Stop of another login on a session the
\* target has open is skipped by the filter: it appends no diagnostic and the
\* session stays open with its login and timestamp.
C8_ForeignStopSkipped ==
    [][ ( /\ Stepped /\ Truthy(target_login)
          /\ IsEvent(LastRow') /\ LastEvent'.action = "Stop"
          /\ LastEvent'.login # target_login
          /\ HasKey(start_times, LastEvent'.session_id)
          /\ GetItem(start_times, LastEvent'.session_id).login = target_login )
        => ( /\ missing_start_logs' = missing_start_logs
             /\ HasKey(start_times', LastEvent'.session_id)
             /\ GetItem(start_times', LastEvent'.session_id) =
                   GetItem(start_times, LastEvent'.session_id) ) ]_vars

\* alice has s1 open, bob's Stop on s1 has been read, nothing was recorded.
C8_Witness ==
    /\ target_login = "alice"
    /\ pc = "loop"
    /\ rows = << Row("alice", "Start", 0, "s1"), Row("bob", "Stop", 1, "s1") >>
    /\ missing_start_logs = <<>>
    /\ HasKey(start_times, "s1")

\* ---------------------------------------------------------------------- C9
\* The pass over all rows of a file, run without interruption.
RECURSIVE FoldRows(_, _, _)
FoldRows(st, rs, target) ==
    IF rs = <<>> THEN st ELSE FoldRows(LoopBody(st, Head(rs), target), Tail(rs), target)

WholePass(rs, target) ==
    LET n == Finalization(FoldRows(PassInit, rs, target), target)
    IN  [total_time |-> n.total_time, errors |-> n.missing_start_logs]

WrittenBy(w) ==
    {i \in 1..Len(results_text) : results_text[i].by = w}
    \cup {i \in 1..Len(errors_text) : errors_text[i].by = w}

\* C9: a gui worker reads the cancel flag once, after calculate_work_time has
\* returned what the uninterrupted pass over the whole file returns; a click on
\* Cancel changes no worker's state; a worker that read the flag set writes
\* neither totals nor diagnostics to the panes, passes none on, and its last
\* act is to set the cancelled status.
C9_CancelAfterPass ==
    /\ [](\A w \in RunIds : run[w].flag # "unread" =>
             /\ run[w].pos = Len(file.rows)
             /\ run[w].ret = WholePass(file.rows, run[w].login))
    /\ [][\A w \in RunIds : run[w].flag # "unread" => run'[w].flag = run[w].flag]_vars
    /\ [][(stop_calculation' /\ ~stop_calculation) => run' = run]_vars
    /\ [](\A w \in RunIds : run[w].flag = "set" =>
             /\ WrittenBy(w) = {}
             /\ run[w].args.total_time = <<>>
             /\ run[w].args.errors = <<>>
             /\ run[w].pc \in {"cancel_status", "calculate_btn", "cancel_btn",
                               "set_cancelled", "done"})
    /\ [][\A w \in RunIds :
            (run[w].flag = "set" /\ run[w].pc # "done" /\ run'[w].pc = "done")
                => status_var' = StatusCancelled]_vars

\* A run whose pass matched a pair and returned its total found the flag set
\* and ended; nothing of it is in the panes.
C9_Witness ==
    /\ shell = "gui"
    /\ run[1].pc = "done"
    /\ run[1].flag = "set"
    /\ run[1].ret.total_time # <<>>
    /\ status_var = StatusCancelled
    /\ results_text = <<>>
    /\ errors_text = <<>>

\* --------------------------------------------------------------------- C10
\* C10: an invocation whose open() or whose reader raised returns nothing and
\* shows nothing of what the pass had accumulated: the cli writes nothing to
\* stdout, ends its stderr with the error message and exits with status 1; the
\* gui worker writes to neither pane and hands on only the error message, so
\* the panes are empty unless another run wrote to them.
C10_NoPartialResult ==
    /\ \A w \in RunIds : run[w].exc # NoExc =>
          /\ run[w].ret = NoResult
          /\ run[w].flag = "unread"
          /\ WrittenBy(w) = {}
          /\ run[w].args.total_time = <<>>
          /\ \A i \in 1..Len(run[w].args.errors) : run[w].args.errors[i].kind = "failed"
          /\ (\A v \in RunIds \ {w} : run[v].pc = "idle") =>
                (results_text = <<>> /\ errors_text = <<>>)
    /\ (shell = "cli" /\ run[1].exc # NoExc) => stdout = <<>>
    /\ (shell = "cli" /\ run[1].exc # NoExc /\ run[1].pc = "done") =>
          /\ exit_code = <<1>>
          /\ stderr # <<>>
          /\ stderr[Len(stderr)].kind \in {"not_found", "failed"}
          /\ \A i \in 1..(Len(stderr) - 1) : stderr[i].kind = "parse"

\* The reader raised after the pass had matched a pair; the worker has
\* finished and the panes are empty.
C10_Witness ==
    /\ shell = "gui"
    /\ run[1].pc = "done"
    /\ run[1].exc = "UnicodeDecodeError"
    /\ run[1].st.total_time # <<>>
    /\ results_text = <<>>
    /\ errors_text = <<>>

\* --------------------------------------------------------------------- C11
\* C11: when the pass fails unexpectedly (any exception but the missing file,
\* which has a message of its own), what the user is left with when the
\* invocation ends carries the text of the exception: the last line of stderr
\* in the cli; the status bar, or else the warnings pane, in the gui.
C11_CauseReported ==
    [][\A w \in RunIds :
         ( /\ run[w].pc # "done" /\ run'[w].pc = "done"
           /\ run[w].exc \notin {NoExc, "FileNotFoundError"} )
         => IF shell = "cli"
            THEN stderr' # <<>> /\ stderr'[Len(stderr')].cause = run[w].exc
            ELSE \/ status_var'.cause = run[w].exc
                 \/ \E i \in 1..Len(errors_text') :
                       \E j \in 1..Len(errors_text'[i].errors) :
                          /\ errors_text'[i].errors[j].kind = "failed"
                          /\ errors_text'[i].errors[j].cause = run[w].exc ]_vars

\* --------------------------------------------------------------------- C12
\* C12: a Stop of the opening login that is earlier than the stored Start is
\* a match like any other: the negative difference is added to the login's
\* total as it is, the entry is removed and no diagnostic is appended.
C12_NegativeDuration ==
    [][ ( /\ SteppedOn("Stop")
          /\ HasKey(start_times, LastEvent'.session_id)
          /\ GetItem(start_times, LastEvent'.session_id).login = LastEvent'.login
          /\ LastEvent'.timestamp < GetItem(start_times, LastEvent'.session_id).timestamp )
        => ( /\ LastEvent'.login \in DOMAIN total_time'
             /\ total_time'[LastEvent'.login] =
                   OldTotal(LastEvent'.login)
                   + (LastEvent'.timestamp
                      - GetItem(start_times, LastEvent'.session_id).timestamp)
             /\ total_time'[LastEvent'.login] < OldTotal(LastEvent'.login)
             /\ \A l \in DOMAIN total_time \ {LastEvent'.login} :
                   l \in DOMAIN total_time' /\ total_time'[l] = total_time[l]
             /\ start_times' = DelItem(start_times, LastEvent'.session_id)
             /\ ~HasKey(start_times', LastEvent'.session_id)
             /\ missing_start_logs' = missing_start_logs ) ]_vars

\* Start at 1, Stop at 0: the total is -1 and the table is empty.
C12_Witness ==
    /\ rows = << Row("alice", "Start", 1, "s1"), Row("alice", "Stop", 0, "s1") >>
    /\ total_time = [l \in {"alice"} |-> 0 - 1]
    /\ start_times = <<>>
    /\ missing_start_logs = <<>>

\* --------------------------------------------------------------------- C13
\* A pass over the events of one session id, long enough for a Start, two
\* Stops of another login and the Stop of the opener.
SessionRows == {r \in EventRows : r[4] = "s1"}

SessionRow ==
    /\ Len(rows) < MaxSessionRows
    /\ \E row \in SessionRows : Step(row)

NextSession == SessionRow \/ Finalize

SpecSession == Init /\ [][NextSession]_vars

\* The admitted Stops on the id after row j.
StopsAfter(rs, j, sid, target) ==
    {k \in (j + 1)..Len(rs) : Admitted(rs[k], target) /\ rs[k][2] = "Stop" /\ rs[k][4] = sid}

\* The last admitted Start on the id is still open: no Stop of its login
\* follows it.
OpenAt(rs, sid, target) ==
    LET j == LastStart(rs, sid, target)
    IN  IF j = 0 THEN FALSE
        ELSE \A k \in StopsAfter(rs, j, sid, target) : rs[k][1] # rs[j][1]

\* C13: however many Stops of other logins an open session has seen, a Stop of
\* the opener still matches it, adds its timestamp minus that of the original
\* Start to the opener's total and removes the entry; a session left open when
\* the input ends yields exactly one unterminated-Start diagnostic, that of
\* its last Start, and a session that was closed yields none.
C13_StillClosable ==
    /\ [][ ( /\ SteppedOn("Stop")
             /\ OpenAt(rows, LastEvent'.session_id, target_login)
             /\ rows[LastStart(rows, LastEvent'.session_id, target_login)][1]
                   = LastEvent'.login )
           => ( /\ LastEvent'.login \in DOMAIN total_time'
                /\ total_time'[LastEvent'.login] =
                      OldTotal(LastEvent'.login) + LastEvent'.timestamp
                      - rows[LastStart(rows, LastEvent'.session_id, target_login)][3].secs
                /\ ~HasKey(start_times', LastEvent'.session_id)
                /\ missing_start_logs' = missing_start_logs ) ]_vars
    /\ [](pc = "returned" =>
            \A sid \in SessionIds :
               IF OpenAt(rows, sid, target_login)
               THEN /\ KindCount(result.errors, "unterminated", sid) = 1
                    /\ \E i \in 1..Len(result.errors) :
                          result.errors[i] =
                             Diag("unterminated",
                                  rows[LastStart(rows, sid, target_login)][1],
                                  rows[LastStart(rows, sid, target_login)][3].secs, sid)
               ELSE KindCount(result.errors, "unterminated", sid) = 0)

\* Two Stops of bob on alice's session, then alice's own Stop closes it.
C13_Witness ==
    /\ rows = << Row("alice", "Start", 0, "s1"), Row("bob", "Stop", 0, "s1"),
                 Row("bob", "Stop", 1, "s1"), Row("alice", "Stop", 1, "s1") >>
    /\ total_time = [l \in {"alice"} |-> 1]
    /\ start_times = <<>>
    /\ KindCount(missing_start_logs, "mismatch", "s1") = 2

\* --------------------------------------------------------------------- C14
\* The list is the old list with zero or more diagnostics after it.
Extends(new, old) ==
    /\ Len(new) >= Len(old)
    /\ SubSeq(new, 1, Len(old)) = old

\* No diagnostic of the pass comes after an unterminated-Start diagnostic.
UnterminatedLast(log) ==
    \A i, j \in 1..Len(log) :
        (log[i].kind = "unterminated" /\ log[j].kind # "unterminated") => j < i

\* C14: the diagnostics list is append-only.  A step of the loop leaves it as
\* it is or, on a Stop, appends the one orphan or mismatch diagnostic of that
\* Stop, so these diagnostics stand in the order of their events; no step
\* removes or reorders what is there; every unterminated-Start diagnostic
\* comes after every orphan and mismatch diagnostic, in the list and in the
\* returned one.
C14_AppendOnly ==
    /\ [][Extends(missing_start_logs', missing_start_logs)]_vars
    /\ [][ Stepped =>
             \/ missing_start_logs' = missing_start_logs
             \/ /\ SteppedOn("Stop")
                /\ \E kind \in {"orphan", "mismatch"} :
                      missing_start_logs' =
                         Append(missing_start_logs,
                                Diag(kind, LastEvent'.login, LastEvent'.timestamp,
                                     LastEvent'.session_id)) ]_vars
    /\ [](pc = "loop" =>
             \A i \in 1..Len(missing_start_logs) :
                 missing_start_logs[i].kind # "unterminated")
    /\ [](UnterminatedLast(missing_start_logs) /\ UnterminatedLast(result.errors))
    /\ [](pc = "returned" => result.errors = missing_start_logs)

\* An orphan Stop, then a mismatching Stop, then the Start left open.
C14_Witness ==
    /\ pc = "returned"
    /\ rows = << Row("bob", "Stop", 0, "s1"), Row("alice", "Start", 0, "s1"),
                 Row("bob", "Stop", 1, "s1") >>
    /\ result.errors = << Diag("orphan", "bob", 0, "s1"), Diag("mismatch", "bob", 1, "s1"),
                          Diag("unterminated", "alice", 0, "s1") >>

\* --------------------------------------------------------------------- C15
\* The row yields no Start/Stop event: it has fewer than four fields, or its
\* timestamp does not match the pattern, or its action is another word.
Dropped(row) ==
    \/ Len(row) < 4
    \/ (IF Len(row) < 4 THEN FALSE ELSE ~row[3].ok)
    \/ (IF Len(row) < 4 THEN FALSE ELSE row[2] \notin {"Start", "Stop"})

\* C15: a row the parser drops, or whose action is neither Start nor Stop,
\* leaves the open-session table, the totals and the diagnostics list as they
\* were, and the pass goes on with the next row; what the pass returns is what
\* it returns on the input without these rows.
C15_DroppedRowNoEffect ==
    /\ [][ (Len(rows') = Len(rows) + 1 /\ Dropped(rows'[Len(rows')]))
           => ( /\ start_times' = start_times
                /\ total_time' = total_time
                /\ missing_start_logs' = missing_start_logs
                /\ pc' = "loop"
                /\ result' = NoResult ) ]_vars
    /\ [](pc = "returned" =>
            result = WholePass(SelectSeq(rows, LAMBDA r : ~Dropped(r)), target_login))

\* A row with a bad timestamp between a Start and its Stop: the pair is matched.
C15_Witness ==
    /\ rows = << Row("alice", "Start", 0, "s1"),
                 <<"alice", "Start", [ok |-> FALSE, secs |-> 0], "s1">>,
                 Row("alice", "Stop", 1, "s1") >>
    /\ total_time = [l \in {"alice"} |-> 1]
    /\ start_times = <<>>
    /\ missing_start_logs = <<>>

\* --------------------------------------------------------------------- C19
\* The events the state machine has seen: the admitted rows, in order.
Events(rs, target) == SelectSeq(rs, LAMBDA r : Admitted(r, target))

\* The events with this action.
Processed(ev, action) == {i \in 1..Len(ev) : ev[i][2] = action}

\* Index of the last Start before event i on the id of event i, or 0.
StartBefore(ev, i) ==
    LET starts == {j \in 1..(i - 1) : ev[j][2] = "Start" /\ ev[j][4] = ev[i][4]}
    IN  IF starts = {} THEN 0 ELSE CHOOSE j \in starts : \A k \in starts : k <= j

\* Event i finds its id open: a Start on it, and after that Start no Stop of
\* the login of that Start.
FindsOpen(ev, i) ==
    LET j == StartBefore(ev, i)
    IN  IF j = 0 THEN FALSE
        ELSE \A k \in (j + 1)..(i - 1) :
                ~(ev[k][2] = "Stop" /\ ev[k][4] = ev[i][4] /\ ev[k][1] = ev[j][1])

\* The Stops that found their session open by their own login.
Matches(ev) ==
    {i \in Processed(ev, "Stop") :
        IF FindsOpen(ev, i) THEN ev[StartBefore(ev, i)][1] = ev[i][1] ELSE FALSE}

\* The Starts that found their session id open and replaced its entry.
Overwritten(ev) == {i \in Processed(ev, "Start") : FindsOpen(ev, i)}

OfKind(log, kind) == {i \in 1..Len(log) : log[i].kind = kind}

\* The three outcomes of a Stop, as changes of the three structures.
MatchOutcome ==
    /\ Len(start_times') = Len(start_times) - 1
    /\ ~HasKey(start_times', LastEvent'.session_id)
    /\ DOMAIN total_time' = DOMAIN total_time \cup {LastEvent'.login}
    /\ \A l \in DOMAIN total_time \ {LastEvent'.login} : total_time'[l] = total_time[l]
    /\ missing_start_logs' = missing_start_logs

DiagOutcome(kind) ==
    /\ start_times' = start_times
    /\ total_time' = total_time
    /\ missing_start_logs' =
          Append(missing_start_logs,
                 Diag(kind, LastEvent'.login, LastEvent'.timestamp, LastEvent'.session_id))

\* C19: every Stop the state machine sees has exactly one outcome: a match
\* (one entry removed, one total updated), one mismatch diagnostic or one
\* orphan diagnostic.  So the Stops processed are as many as the matches, the
\* mismatch diagnostics and the orphan diagnostics together, and the Starts
\* processed as many as the overwritten Starts, the matches and the entries
\* still open, each of which is one unterminated-Start diagnostic on return.
C19_StopOutcomes ==
    /\ [][ SteppedOn("Stop") =>
             Cardinality({o \in {"match", "mismatch", "orphan"} :
                             IF o = "match" THEN MatchOutcome ELSE DiagOutcome(o)}) = 1 ]_vars
    /\ [](LET ev == Events(rows, target_login)
               matches == Cardinality(Matches(ev))
               overwritten == Cardinality(Overwritten(ev))
               starts == Cardinality(Processed(ev, "Start"))
               stops == Cardinality(Processed(ev, "Stop"))
           IN  /\ stops = matches + Cardinality(OfKind(missing_start_logs, "mismatch"))
                                  + Cardinality(OfKind(missing_start_logs, "orphan"))
               /\ starts = overwritten + matches + Len(start_times)
               /\ pc = "returned" =>
                     /\ Cardinality(OfKind(result.errors, "unterminated")) = Len(start_times)
                     /\ stops = matches + Cardinality(OfKind(result.errors, "mismatch"))
                                        + Cardinality(OfKind(result.errors, "orphan"))
                     /\ starts = overwritten + matches
                                 + Cardinality(OfKind(result.errors, "unterminated")))

\* Two Starts and a Stop on one id: one overwritten Start, one match; returned.
C19_Witness ==
    /\ pc = "returned"
    /\ rows = << Row("alice", "Start", 0, "s1"), Row("alice", "Start", 1, "s1"),
                 Row("alice", "Stop", 1, "s1") >>
    /\ Cardinality(Overwritten(Events(rows, target_login))) = 1
    /\ Cardinality(Matches(Events(rows, target_login))) = 1
    /\ result.errors = <<>>

\* --------------------------------------------------------------------- C20
\* C20: with a non-empty target login, every open-session entry belongs to the
\* target and the totals have no key but the target; so the login test of the
\* finalization keeps every entry (one unterminated-Start diagnostic per entry),
\* no mismatch diagnostic exists, and every diagnostic, in the list and in the
\* returned one, names the target, which is what the cli's filter lets through.
C20_TargetOnly ==
    Truthy(target_login) =>
        /\ \A i \in 1..Len(start_times) :
              /\ start_times[i].login = target_login
              /\ FinalKeep(target_login, start_times[i].login)
        /\ DOMAIN total_time \subseteq {target_login}
        /\ DOMAIN result.total_time \subseteq {target_login}
        /\ OfKind(missing_start_logs, "mismatch") = {}
        /\ OfKind(result.errors, "mismatch") = {}
        /\ \A i \in 1..Len(missing_start_logs) : missing_start_logs[i].login = target_login
        /\ \A i \in 1..Len(result.errors) : result.errors[i].login = target_login
        /\ SelectSeq(result.errors, LAMBDA e : Mentions(e, target_login)) = result.errors
        /\ pc = "returned" =>
              Cardinality(OfKind(result.errors, "unterminated")) = Len(start_times)

\* Target alice, input with events of bob: alice's Stop on the id bob opened
\* is an orphan, her Start on the other id is left open.
C20_Witness ==
    /\ target_login = "alice"
    /\ pc = "returned"
    /\ rows = << Row("bob", "Start", 0, "s1"), Row("alice", "Stop", 1, "s1"),
                 Row("alice", "Start", 1, "s2") >>
    /\ result.errors = << Diag("orphan", "alice", 1, "s1"),
                          Diag("unterminated", "alice", 1, "s2") >>
    /\ start_times # <<>>

\* --------------------------------------------------------------------- C16
\* C16: whatever the interleaving of the Tk main thread and the worker, a
\* click on Cancel that comes while the Cancel button is enabled for a run
\* suppresses the result of that run: nothing the run has computed, totals or
\* diagnostics, is ever in the panes.
C16_RequestSuppresses ==
    \A w \in asked :
        /\ \A i \in 1..Len(results_text) :
              results_text[i].by = w => results_text[i].totals = <<>>
        /\ \A i \in 1..Len(errors_text) :
              errors_text[i].by = w => errors_text[i].errors = <<>>

\* --------------------------------------------------------------------- C17
\* The worker threads that have been started and have not ended.
Active == {w \in RunIds : run[w].pc \notin {"idle", "done"}}

\* C17: in the gui at most one worker is active at any time: start_calculation
\* disables the Calculate button and clears the cancel flag as it starts the
\* worker, the button is enabled again only by _update_ui_after_calculation
\* of a worker, and a run takes the cancelled branch only on a click on Cancel
\* that was meant for it, never on one left over from an earlier run.
C17_OneWorker ==
    /\ [](shell = "gui" => Cardinality(Active) <= 1)
    /\ [][ (\E w \in RunIds : run[w].pc = "idle" /\ run'[w].pc # "idle")
           => (calculate_btn' = "disabled" /\ ~stop_calculation') ]_vars
    /\ [][ (calculate_btn = "disabled" /\ calculate_btn' = "normal")
           => \E w \in RunIds : run[w].pc = "calculate_btn" /\ run'[w].pc = "cancel_btn" ]_vars
    /\ [](\A w \in RunIds : run[w].flag = "set" => w \in asked)

\* --------------------------------------------------------------------- C18
\* The three ways a gui run ends, seen at the step that ends it.
Published(w) == WrittenBy(w) # {}
CancelledRun(w) == run[w].args.cancelled
ErrorRun(w) == run[w].exc # NoExc

\* C18: every gui calculation that was started ends, in exactly one of three
\* ways (results published, cancelled, error), and when it ends the controls
\* are as before the start: Calculate enabled, Cancel disabled.
C18_EndsRestored ==
    /\ \A w \in RunIds :
          (shell = "gui" /\ run[w].pc # "idle") ~> (run[w].pc = "done")
    /\ [][ \A w \in RunIds :
             (shell = "gui" /\ run[w].pc # "done" /\ run'[w].pc = "done")
             => /\ Cardinality({o \in {"published", "cancelled", "error"} :
                                   IF o = "published" THEN Published(w)'
                                   ELSE IF o = "cancelled" THEN CancelledRun(w)
                                   ELSE ErrorRun(w)}) = 1
                /\ calculate_btn' = "normal"
                /\ cancel_btn' = "disabled" ]_vars

====
